---- MODULE Spec2Model ----
(***************************************************************************)
(* Model of geo2wall/extract.py: reading a geometry file, expanding        *)
(* multipolygons, rotating/translating the collection and collapsing each  *)
(* geometry to a horizontal or vertical wall.                              *)
(*                                                                         *)
(* Coordinates are exact rationals <<numerator, denominator>> so that the  *)
(* midline division by 2.0, the centroid and rotations by angles with      *)
(* rational sine and cosine are computed, not approximated.                *)
(***************************************************************************)
EXTENDS Integers, Sequences, FiniteSets, TLC

(* ---------------------------- bounds ----------------------------------- *)
\* largest number of records in an input file
MaxRecs == 2

(* ------------------------- exact arithmetic ---------------------------- *)
Abs(n) == IF n < 0 THEN -n ELSE n

RECURSIVE GCD(_, _)
GCD(a, b) == IF b = 0 THEN a ELSE GCD(b, a % b)

RNorm(n, d) == LET g == GCD(Abs(n), d) IN <<n \div g, d \div g>>
RInt(n) == <<n, 1>>
RAdd(a, b) == RNorm(a[1] * b[2] + b[1] * a[2], a[2] * b[2])
RNeg(a) == <<-a[1], a[2]>>
RSub(a, b) == RAdd(a, RNeg(b))
RMul(a, b) == RNorm(a[1] * b[1], a[2] * b[2])
RDivInt(a, k) == RNorm(a[1], a[2] * k)
RLess(a, b) == a[1] * b[2] < b[1] * a[2]
RLeq(a, b) == a[1] * b[2] <= b[1] * a[2]
RAbs(a) == <<Abs(a[1]), a[2]>>
RMin(S) == CHOOSE m \in S : \A o \in S : RLeq(m, o)
RMax(S) == CHOOSE m \in S : \A o \in S : RLeq(o, m)

RECURSIVE SumOver(_, _)
\* sum of the integers f[e] for e in S
SumOver(f, S) ==
    IF S = {} THEN 0
    ELSE LET e == CHOOSE e \in S : TRUE IN f[e] + SumOver(f, S \ {e})

(* ----------------------------- geometry -------------------------------- *)
\* a point is <<x, y>>; a geometry is [type, parts], parts a sequence of
\* coordinate sequences (one for Point, LineString and Polygon, one per
\* member polygon for MultiPolygon)
Pt(x, y) == <<RInt(x), RInt(y)>>
Rect(xmin, ymin, xmax, ymax) ==
    <<Pt(xmin, ymin), Pt(xmax, ymin), Pt(xmax, ymax), Pt(xmin, ymax), Pt(xmin, ymin)>>

Point(p) == [type |-> "Point", parts |-> <<(<<p>>)>>]
LineString(coords) == [type |-> "LineString", parts |-> <<coords>>]
Polygon(ring) == [type |-> "Polygon", parts |-> <<ring>>]
MultiPolygon(rings) == [type |-> "MultiPolygon", parts |-> rings]

\* geo.coords of a Point, LineString or the exterior of a Polygon
Coords(geo) == geo.parts[1]

PointsOf(geo) ==
    UNION {{geo.parts[i][j] : j \in DOMAIN geo.parts[i]} : i \in DOMAIN geo.parts}

\* geo.bounds: (minx, miny, maxx, maxy)
Bounds(geo) ==
    LET xs == {p[1] : p \in PointsOf(geo)}
        ys == {p[2] : p \in PointsOf(geo)}
    IN <<RMin(xs), RMin(ys), RMax(xs), RMax(ys)>>

\* an absent optional argument (Python None); a present one is the value
None == <<>>

(* ------------------- centroid of the union (line 67) -------------------- *)
\* The loader's geometries are axis-parallel with integer corners, so the
\* union of the collection is a set of unit cells (areas), unit edges
\* (lines) or points, and its centroid is the mean of their midpoints.
\* A piece is named by its doubled midpoint.
Dim(geo) ==
    IF geo.type = "Point" THEN 0 ELSE IF geo.type = "LineString" THEN 1 ELSE 2

Between(a, b) == IF a <= b THEN a .. (b - 1) ELSE b .. (a - 1)

CellsOfRing(ring) ==
    LET b == Bounds(Polygon(ring))
    IN {<<2 * x + 1, 2 * y + 1>> : <<x, y>> \in (b[1][1] .. (b[3][1] - 1)) \X (b[2][1] .. (b[4][1] - 1))}

EdgesOfSegment(p, q) ==
    IF p[2] = q[2]
    THEN {<<2 * x + 1, 2 * p[2][1]>> : x \in Between(p[1][1], q[1][1])}
    ELSE {<<2 * p[1][1], 2 * y + 1>> : y \in Between(p[2][1], q[2][1])}

PiecesOf(geo) ==
    IF Dim(geo) = 2
    THEN UNION {CellsOfRing(geo.parts[i]) : i \in DOMAIN geo.parts}
    ELSE IF Dim(geo) = 1
    THEN UNION {EdgesOfSegment(Coords(geo)[j], Coords(geo)[j + 1]) : j \in 1 .. (Len(Coords(geo)) - 1)}
    ELSE {<<2 * Coords(geo)[1][1][1], 2 * Coords(geo)[1][2][1]>>}

\* df.unary_union.centroid: centroid of the highest-dimension part of the union
Centroid(geoms) ==
    LET top == RMax({RInt(Dim(geoms[i])) : i \in DOMAIN geoms})[1]
        pieces == UNION {PiecesOf(geoms[i]) : i \in {k \in DOMAIN geoms : Dim(geoms[k]) = top}}
        n == Cardinality(pieces)
    IN <<RNorm(SumOver([m \in pieces |-> m[1]], pieces), 2 * n),
         RNorm(SumOver([m \in pieces |-> m[2]], pieces), 2 * n)>>

(* ------------------------ rotate and translate ------------------------- *)
\* an angle is <<c, s, d>> with cos = c/d and sin = s/d
Cos(angle) == RNorm(angle[1], angle[3])
Sin(angle) == RNorm(angle[2], angle[3])

\* the linear part of a counter-clockwise rotation
RotateVector(v, angle) ==
    <<RSub(RMul(Cos(angle), v[1]), RMul(Sin(angle), v[2])),
      RAdd(RMul(Sin(angle), v[1]), RMul(Cos(angle), v[2]))>>

\* rotation of one point about origin
RotatePoint(p, angle, origin) ==
    LET r == RotateVector(<<RSub(p[1], origin[1]), RSub(p[2], origin[2])>>, angle)
    IN <<RAdd(r[1], origin[1]), RAdd(r[2], origin[2])>>

TranslatePoint(p, xoff, yoff) == <<RAdd(p[1], xoff), RAdd(p[2], yoff)>>

RotateGeo(geo, angle, origin) ==
    [geo EXCEPT !.parts = [i \in DOMAIN @ |->
        [j \in DOMAIN @[i] |-> RotatePoint(@[i][j], angle, origin)]]]

TranslateGeo(geo, xoff, yoff) ==
    [geo EXCEPT !.parts = [i \in DOMAIN @ |->
        [j \in DOMAIN @[i] |-> TranslatePoint(@[i][j], xoff, yoff)]]]

\* LowerLeft taking the first row of the bounds table instead of the minima
LowerLeftFirstRow(data) == <<Bounds(data[1])[1], Bounds(data[1])[2]>>

\* data.bounds, then the column minima of minx and miny
LowerLeft(data) ==
    <<RMin({Bounds(data[i])[1] : i \in DOMAIN data}),
      RMin({Bounds(data[i])[2] : i \in DOMAIN data})>>

\* rotate_and_translate that computes the lower left corner even when a
\* translation is passed
rotate_and_translate_recomputed(df, angle, rotation_center, tranlation) ==
    LET center == IF rotation_center = None THEN Centroid(df) ELSE rotation_center
        data == [i \in DOMAIN df |-> RotateGeo(df[i], angle, center)]
        lower_left == LowerLeft(data)
    IN [data |-> [i \in DOMAIN df |->
                    TranslateGeo(data[i], RNeg(lower_left[1]), RNeg(lower_left[2]))],
        rotation_center |-> center,
        lower_left |-> IF tranlation = None THEN lower_left ELSE tranlation]

\* df is the geometry column of a non-empty frame
rotate_and_translate(df, angle, rotation_center, tranlation) ==
    LET center == IF rotation_center = None THEN Centroid(df) ELSE rotation_center
        data == [i \in DOMAIN df |-> RotateGeo(df[i], angle, center)]
        lower_left == IF tranlation = None THEN LowerLeft(data) ELSE tranlation
    IN [data |-> [i \in DOMAIN df |->
                    TranslateGeo(data[i], RNeg(lower_left[1]), RNeg(lower_left[2]))],
        rotation_center |-> center,
        lower_left |-> lower_left]

(* ------------------------- transform_to_lines -------------------------- *)
\* the loop body with one of three slips: the wall put in front of its list,
\* a tie of the two extents taken as horizontal, or a line snapped to its axis
WallOfVariant(walls, geo, prepend, tieHorizontal, snap) ==
    LET Put(list, w) == IF prepend THEN <<w>> \o list ELSE Append(list, w)
        Horizontal(xdiff, ydiff) ==
            IF tieHorizontal THEN RLeq(ydiff, xdiff) ELSE RLess(ydiff, xdiff)
    IN IF geo.type = "LineString"
       THEN LET x1 == Coords(geo)[1][1]
                x2 == Coords(geo)[2][1]
                y1 == Coords(geo)[1][2]
                y2 == Coords(geo)[2][2]
            IN IF Horizontal(RAbs(RSub(x1, x2)), RAbs(RSub(y1, y2)))
               THEN [walls EXCEPT !.walls_h =
                        Put(@, IF snap THEN <<x1, y1, x2, y1>> ELSE <<x1, y1, x2, y2>>)]
               ELSE [walls EXCEPT !.walls_v =
                        Put(@, IF snap THEN <<x1, y1, x1, y2>> ELSE <<x1, y1, x2, y2>>)]
       ELSE LET b == Bounds(geo)
            IN IF Horizontal(RAbs(RSub(b[1], b[3])), RAbs(RSub(b[2], b[4])))
               THEN LET c == RDivInt(RAdd(b[2], b[4]), 2)
                    IN [walls EXCEPT !.walls_h = Put(@, <<b[1], c, b[3], c>>)]
               ELSE LET c == RDivInt(RAdd(b[1], b[3]), 2)
                    IN [walls EXCEPT !.walls_v = Put(@, <<c, b[2], c, b[4]>>)]

WallOfPrepend(walls, geo) == WallOfVariant(walls, geo, TRUE, FALSE, FALSE)
WallOfTieHorizontal(walls, geo) == WallOfVariant(walls, geo, FALSE, TRUE, FALSE)
WallOfSnapped(walls, geo) == WallOfVariant(walls, geo, FALSE, FALSE, TRUE)

\* one iteration of the loop: the wall of geo appended to walls_h or walls_v
WallOf(walls, geo) ==
    IF geo.type = "LineString"
    THEN LET x1 == Coords(geo)[1][1]
             x2 == Coords(geo)[2][1]
             y1 == Coords(geo)[1][2]
             y2 == Coords(geo)[2][2]
             l == <<x1, y1, x2, y2>>
             xdiff == RAbs(RSub(x1, x2))
             ydiff == RAbs(RSub(y1, y2))
         IN IF RLess(ydiff, xdiff)
            THEN [walls EXCEPT !.walls_h = Append(@, l)]
            ELSE [walls EXCEPT !.walls_v = Append(@, l)]
    ELSE LET b == Bounds(geo)
             xdiff == RAbs(RSub(b[1], b[3]))
             ydiff == RAbs(RSub(b[2], b[4]))
         IN IF RLess(ydiff, xdiff)
            THEN LET c == RDivInt(RAdd(b[2], b[4]), 2)
                 IN [walls EXCEPT !.walls_h = Append(@, <<b[1], c, b[3], c>>)]
            ELSE LET c == RDivInt(RAdd(b[1], b[3]), 2)
                 IN [walls EXCEPT !.walls_v = Append(@, <<c, b[2], c, b[4]>>)]

RECURSIVE WallsLoop(_, _, _)
WallsLoop(walls, data, i) ==
    IF i > Len(data) THEN walls ELSE WallsLoop(WallOf(walls, data[i]), data, i + 1)

transform_to_lines(data) == WallsLoop([walls_h |-> <<>>, walls_v |-> <<>>], data, 1)

(* ------------------------ _expand_to_polygons -------------------------- *)
\* ExpandRow that assigns every copy the last member polygon
ExpandRowLastPart(row) ==
    (IF row.geometry.type = "Polygon" THEN <<row>> ELSE <<>>)
    \o (IF row.geometry.type = "MultiPolygon"
        THEN [geom \in DOMAIN row.geometry.parts |->
                 [row EXCEPT !.geometry =
                     Polygon(row.geometry.parts[Len(row.geometry.parts)])]]
        ELSE <<>>)

\* a row is [geometry, attrs]; the rows appended for one input row
ExpandRow(row) ==
    (IF row.geometry.type = "Polygon" THEN <<row>> ELSE <<>>)
    \o (IF row.geometry.type = "MultiPolygon"
        THEN [geom \in DOMAIN row.geometry.parts |->
                 [row EXCEPT !.geometry = Polygon(row.geometry.parts[geom])]]
        ELSE <<>>)

RECURSIVE ExpandLoop(_, _, _)
ExpandLoop(outdf, df, idx) ==
    IF idx > Len(df) THEN outdf ELSE ExpandLoop(outdf \o ExpandRow(df[idx]), df, idx + 1)

_expand_to_polygons(df) == ExpandLoop(<<>>, df, 1)

(* --------------------------- input files ------------------------------- *)
DestCrs == "epsg:25832"
OtherCrs == "epsg:4326"
NoCrs == "none"
NoAttrs == "none"

\* the geometries a .shp or .kml file may hold, each with its attribute
GeoPool ==
    {[geometry |-> Polygon(Rect(0, 0, 3, 1)), attrs |-> "wide"],
     [geometry |-> Polygon(Rect(1, 1, 3, 3)), attrs |-> "square"],
     [geometry |-> MultiPolygon(<<Rect(0, 0, 2, 1), Rect(3, 0, 4, 3)>>), attrs |-> "multi"],
     [geometry |-> LineString(<<Pt(0, 0), Pt(2, 0)>>), attrs |-> "line"],
     [geometry |-> LineString(<<Pt(0, 0), Pt(1, 0), Pt(1, 3)>>), attrs |-> "polyline"],
     [geometry |-> Point(Pt(1, 2)), attrs |-> "point"]}

\* the LINE entities a .dxf file may hold
EntityPool ==
    {[start |-> Pt(0, 0), end |-> Pt(2, 0)],
     [start |-> Pt(1, 0), end |-> Pt(1, 3)]}

SeqsUpTo(S, n) == UNION {[1 .. k -> S] : k \in 1 .. n}

\* the wall layer of a .kml file holds areas
KmlPool == {row \in GeoPool : row.geometry.type \in {"Polygon", "MultiPolygon"}}

Files ==
    {[f_type |-> ".shp", crs |-> c, rows |-> r, entities |-> <<>>] :
        c \in {DestCrs, OtherCrs}, r \in SeqsUpTo(GeoPool, MaxRecs)}
    \cup {[f_type |-> ".kml", crs |-> c, rows |-> r, entities |-> <<>>] :
        c \in {DestCrs, OtherCrs}, r \in SeqsUpTo(KmlPool, MaxRecs)}
    \cup {[f_type |-> ".dxf", crs |-> NoCrs, rows |-> <<>>, entities |-> e] :
        e \in SeqsUpTo(EntityPool, MaxRecs)}
    \cup {[f_type |-> ".txt", crs |-> NoCrs, rows |-> <<>>, entities |-> <<>>]}

\* rotation angles with rational sine and cosine: 0, 90 and about 53.13 degrees
Angles == {<<1, 0, 1>>, <<0, 1, 1>>, <<3, 4, 5>>}

\* the scale argument: None or a factor
Scales == {None, <<RInt(2)>>}

\* a second collection and a fixed translation a caller may pass
OtherFrame ==
    <<Polygon(Rect(2, 0, 3, 4)), LineString(<<Pt(0, 1), Pt(4, 1)>>),
      LineString(<<Pt(0, 0), Pt(1, 1)>>)>>
FixedTranslation == Pt(1, 2)

(* ------------------------------ loader --------------------------------- *)
Geometry(df) == [i \in DOMAIN df |-> df[i].geometry]

ScalePoint(p, scale) ==
    IF scale = None THEN p ELSE <<RMul(p[1], scale[1]), RMul(p[2], scale[1])>>

read_dxf_file(entities, scale) ==
    [i \in DOMAIN entities |->
        [geometry |-> LineString(<<ScalePoint(entities[i].start, scale),
                                   ScalePoint(entities[i].end, scale)>>),
         attrs |-> NoAttrs]]

\* file.to_crs(dest_crs): the reprojection is done by the GIS library; it
\* keeps the records and their types and moves every coordinate (here by
\* one unit along each axis)
to_crs(rows) ==
    [i \in DOMAIN rows |-> [rows[i] EXCEPT !.geometry = TranslateGeo(@, RInt(1), RInt(1))]]

\* the frame read_file or read_dxf_file returns, with its crs
LoadFile(f, scale) ==
    IF f.f_type = ".dxf"
    THEN [crs |-> NoCrs, rows |-> read_dxf_file(f.entities, scale)]
    ELSE [crs |-> f.crs, rows |-> f.rows]

Reprojects(f) == ~(f.crs = DestCrs) /\ f.f_type # ".dxf"

read_geometry_file(f, scale) ==
    IF Reprojects(f)
    THEN _expand_to_polygons(to_crs(LoadFile(f, scale).rows))
    ELSE LoadFile(f, scale).rows

(* ------------------------------- state --------------------------------- *)
VARIABLES
    pc,          \* position in get_walls_from_geometry_file
    file,        \* the input file
    angle,       \* rotation_angle
    scale,       \* scale
    df,          \* the frame read_geometry_file returned
    calls,       \* the functions called so far, in order
    expand,      \* None, or <<[arg, result]>> of the _expand_to_polygons call
    rot,         \* None, or <<result>> of the pipeline's rotate_and_translate
    walls,       \* None, or <<[walls_h, walls_v]>> returned by transform_to_lines
    again        \* None, or <<[df, center, tranlation, result, walls]>> of a
                 \* later call and of the walls taken from its result

vars == <<pc, file, angle, scale, df, calls, expand, rot, walls, again>>

Init ==
    /\ pc = "start"
    /\ file \in Files
    /\ angle \in Angles
    /\ scale \in (IF file.f_type = ".dxf" THEN Scales ELSE {None})
    /\ df = <<>>
    /\ calls = <<>>
    /\ expand = None
    /\ rot = None
    /\ walls = None
    /\ again = None

\* line 21: file = read_geometry_file(file_path, kml_folder, scale=scale)
ReadGeometryFile ==
    /\ pc = "start"
    /\ file.f_type \in {".shp", ".kml", ".dxf"}
    /\ df' = read_geometry_file(file, scale)
    /\ expand' = IF Reprojects(file)
                 THEN <<[arg |-> to_crs(file.rows),
                         result |-> _expand_to_polygons(to_crs(file.rows))]>>
                 ELSE None
    /\ calls' = calls \o <<"read_geometry_file">>
                 \o (IF file.f_type = ".dxf" THEN <<"read_dxf_file">> ELSE <<"read_file">>)
                 \o (IF Reprojects(file) THEN <<"to_crs", "_expand_to_polygons">> ELSE <<>>)
    /\ pc' = "read"
    /\ UNCHANGED <<file, angle, scale, rot, walls, again>>

\* lines 38-48: no branch binds the local for another file type
ReadUnknownFileType ==
    /\ pc = "start"
    /\ file.f_type \notin {".shp", ".kml", ".dxf"}
    /\ calls' = calls \o <<"read_geometry_file">>
    /\ pc' = "error"
    /\ UNCHANGED <<file, angle, scale, df, expand, rot, walls, again>>

\* line 22: data, _, _ = rotate_and_translate(file, rotation_angle)
RotateAndTranslate ==
    /\ pc = "read"
    /\ df # <<>>
    /\ rot' = <<rotate_and_translate(Geometry(df), angle, None, None)>>
    /\ calls' = Append(calls, "rotate_and_translate")
    /\ pc' = "rotated"
    /\ UNCHANGED <<file, angle, scale, df, expand, walls, again>>

\* line 22 on a frame without rows: the centroid is an empty point and the
\* bounds are NaN; whether the library raises depends on its version
RotateEmpty ==
    /\ pc = "read"
    /\ df = <<>>
    /\ calls' = Append(calls, "rotate_and_translate")
    /\ \/ /\ pc' = "error"
          /\ rot' = rot
       \/ /\ pc' = "rotated"
          /\ rot' = <<[data |-> <<>>, rotation_center |-> None, lower_left |-> None]>>
    /\ UNCHANGED <<file, angle, scale, df, expand, walls, again>>

\* line 23: return transform_to_lines(data)
TransformToLines ==
    /\ pc = "rotated"
    /\ walls' = <<transform_to_lines(rot[1].data)>>
    /\ calls' = Append(calls, "transform_to_lines")
    /\ pc' = "done"
    /\ UNCHANGED <<file, angle, scale, df, expand, rot, again>>

\* a caller's further call of rotate_and_translate, on the same or another
\* collection, with the center and offset of the first call or its own
RotateAgain ==
    /\ pc = "done"
    /\ again = None
    /\ df # <<>>
    /\ \E B \in {Geometry(df), OtherFrame},
          frame \in {<<None, None>>,
                     <<rot[1].rotation_center, rot[1].lower_left>>,
                     <<rot[1].rotation_center, FixedTranslation>>} :
        LET center == frame[1]
            tranlation == frame[2]
        IN  again' = <<[df |-> B, center |-> center, tranlation |-> tranlation,
                        result |-> rotate_and_translate(B, angle, center, tranlation),
                        walls |-> None]>>
    /\ calls' = Append(calls, "rotate_and_translate")
    /\ UNCHANGED <<pc, file, angle, scale, df, expand, rot, walls>>

\* the caller's transform_to_lines on the result of that call
TransformAgain ==
    /\ again # None
    /\ again[1].walls = None
    /\ again' = <<[again[1] EXCEPT !.walls = <<transform_to_lines(again[1].result.data)>>]>>
    /\ calls' = Append(calls, "transform_to_lines")
    /\ UNCHANGED <<pc, file, angle, scale, df, expand, rot, walls>>

Next ==
    \/ ReadGeometryFile
    \/ ReadUnknownFileType
    \/ RotateAndTranslate
    \/ RotateEmpty
    \/ TransformToLines
    \/ RotateAgain
    \/ TransformAgain

Spec == Init /\ [][Next]_vars

(* ------------------------ shared by the properties --------------------- *)
\* every completed call of transform_to_lines: its argument and its result
Runs ==
    (IF walls # None THEN {[data |-> rot[1].data, walls |-> walls[1]]} ELSE {})
    \cup (IF again # None /\ again[1].walls # None
          THEN {[data |-> again[1].result.data, walls |-> again[1].walls[1]]}
          ELSE {})

\* every completed call of rotate_and_translate on a non-empty collection
Rotations ==
    (IF rot # None /\ df # <<>>
     THEN {[df |-> Geometry(df), center |-> None, tranlation |-> None, result |-> rot[1]]}
     ELSE {})
    \cup (IF again # None
          THEN {[df |-> again[1].df, center |-> again[1].center,
                 tranlation |-> again[1].tranlation, result |-> again[1].result]}
          ELSE {})

AllPoints(geoms) == UNION {PointsOf(geoms[i]) : i \in DOMAIN geoms}
PointIndex(geoms) ==
    UNION {UNION {{<<g, i, j>> : j \in DOMAIN geoms[g].parts[i]} :
                     i \in DOMAIN geoms[g].parts} : g \in DOMAIN geoms}
PointAt(geoms, k) == geoms[k[1]].parts[k[2]][k[3]]

InSeq(x, seq) == \E k \in DOMAIN seq : seq[k] = x
IsArea(geo) == geo.type \in {"Polygon", "MultiPolygon"}
IsPairLine(geo) == geo.type = "LineString" /\ Len(Coords(geo)) = 2
Kth(S, k) == CHOOSE e \in S : Cardinality({x \in S : x <= e}) = k

\* the wall lies within the bounding box of the geometry
Inside(w, geo) ==
    LET b == Bounds(geo)
    IN /\ RLeq(b[1], w[1]) /\ RLeq(w[1], b[3]) /\ RLeq(b[1], w[3]) /\ RLeq(w[3], b[3])
       /\ RLeq(b[2], w[2]) /\ RLeq(w[2], b[4]) /\ RLeq(b[2], w[4]) /\ RLeq(w[4], b[4])

AreaWide(geo) ==
    RLess(RSub(Bounds(geo)[4], Bounds(geo)[2]), RSub(Bounds(geo)[3], Bounds(geo)[1]))
AreaTie(geo) ==
    RSub(Bounds(geo)[4], Bounds(geo)[2]) = RSub(Bounds(geo)[3], Bounds(geo)[1])
AreaWall(geo) ==
    LET b == Bounds(geo)
    IN IF AreaWide(geo)
       THEN <<b[1], RDivInt(RAdd(b[2], b[4]), 2), b[3], RDivInt(RAdd(b[2], b[4]), 2)>>
       ELSE <<RDivInt(RAdd(b[1], b[3]), 2), b[2], RDivInt(RAdd(b[1], b[3]), 2), b[4]>>

LineWide(geo) ==
    LET p == Coords(geo)[1]
        q == Coords(geo)[Len(Coords(geo))]
    IN RLess(RAbs(RSub(p[2], q[2])), RAbs(RSub(p[1], q[1])))
LineWall(geo) ==
    LET p == Coords(geo)[1]
        q == Coords(geo)[Len(Coords(geo))]
    IN <<p[1], p[2], q[1], q[2]>>

(* ------------------------------- C1 ------------------------------------ *)
\* C1: transform_to_lines returns as many walls as it was given records
\* (len(walls_h) + len(walls_v) = N), and the records can be split into
\* those of walls_h and those of walls_v so that the k-th wall of each list
\* comes from (lies within the bounds of) the k-th record of its share.
C1_OneWallPerRecord ==
    \A r \in Runs :
        LET N == Len(r.data)
            h == r.walls.walls_h
            v == r.walls.walls_v
        IN N >= 1 =>
            /\ Len(h) + Len(v) = N
            /\ \E H \in SUBSET (1 .. N) :
                 /\ Cardinality(H) = Len(h)
                 /\ \A k \in DOMAIN h : Inside(h[k], r.data[Kth(H, k)])
                 /\ \A k \in DOMAIN v : Inside(v[k], r.data[Kth((1 .. N) \ H, k)])

C1_Witness ==
    \E r \in Runs : Len(r.walls.walls_h) >= 2 /\ Len(r.walls.walls_v) >= 1

(* ------------------------------- C2 ------------------------------------ *)
\* C2: an area with bounds (xmin, ymin, xmax, ymax) yields (xmin, c, xmax, c),
\* c = (ymin+ymax)/2, in walls_h iff xmax-xmin > ymax-ymin, and otherwise
\* (c, ymin, c, ymax), c = (xmin+xmax)/2, in walls_v; a tie is vertical; the
\* wall is axis-aligned.  For a collection of areas only, the two lists are
\* exactly these walls in input order.
C2_AreaWalls ==
    \A r \in Runs :
        /\ \A i \in DOMAIN r.data :
             IsArea(r.data[i]) =>
                LET w == AreaWall(r.data[i])
                IN /\ AreaWide(r.data[i]) => InSeq(w, r.walls.walls_h) /\ w[2] = w[4]
                   /\ ~AreaWide(r.data[i]) => InSeq(w, r.walls.walls_v) /\ w[1] = w[3]
                   /\ AreaTie(r.data[i]) => InSeq(w, r.walls.walls_v)
        /\ (\A i \in DOMAIN r.data : IsArea(r.data[i])) =>
             LET all == [i \in DOMAIN r.data |-> r.data[i]]
                 Wide(g) == AreaWide(g)
                 Tall(g) == ~AreaWide(g)
                 wide == SelectSeq(all, Wide)
                 tall == SelectSeq(all, Tall)
             IN /\ r.walls.walls_h = [k \in DOMAIN wide |-> AreaWall(wide[k])]
                /\ r.walls.walls_v = [k \in DOMAIN tall |-> AreaWall(tall[k])]

C2_Witness ==
    \E r \in Runs :
        /\ \A i \in DOMAIN r.data : IsArea(r.data[i])
        /\ \E i \in DOMAIN r.data : AreaTie(r.data[i])
        /\ \E i \in DOMAIN r.data : AreaWide(r.data[i])

(* ------------------------------- C3 ------------------------------------ *)
\* C3: a line given by its two endpoints (x1,y1), (x2,y2) yields the wall
\* (x1, y1, x2, y2), coordinates unchanged, in walls_h if |x1-x2| > |y1-y2|
\* and in walls_v otherwise, a tie included.  For a collection of such
\* lines only, the two lists are exactly these walls in input order.
C3_LineWalls ==
    \A r \in Runs :
        /\ \A i \in DOMAIN r.data :
             IsPairLine(r.data[i]) =>
                IF LineWide(r.data[i])
                THEN InSeq(LineWall(r.data[i]), r.walls.walls_h)
                ELSE InSeq(LineWall(r.data[i]), r.walls.walls_v)
        /\ (\A i \in DOMAIN r.data : IsPairLine(r.data[i])) =>
             LET all == [i \in DOMAIN r.data |-> r.data[i]]
                 Wide(g) == LineWide(g)
                 Tall(g) == ~LineWide(g)
                 wide == SelectSeq(all, Wide)
                 tall == SelectSeq(all, Tall)
             IN /\ r.walls.walls_h = [k \in DOMAIN wide |-> LineWall(wide[k])]
                /\ r.walls.walls_v = [k \in DOMAIN tall |-> LineWall(tall[k])]

\* a slanted line kept as it is, and a line whose two extents are equal
C3_Witness ==
    /\ \E r \in Runs : \E i \in DOMAIN r.data :
          /\ IsPairLine(r.data[i])
          /\ LineWall(r.data[i])[1] # LineWall(r.data[i])[3]
          /\ LineWall(r.data[i])[2] # LineWall(r.data[i])[4]
          /\ RAbs(RSub(LineWall(r.data[i])[1], LineWall(r.data[i])[3]))
               = RAbs(RSub(LineWall(r.data[i])[2], LineWall(r.data[i])[4]))
          /\ InSeq(LineWall(r.data[i]), r.walls.walls_v)

(* ------------------------------- C4 ------------------------------------ *)
\* C4: after rotate_and_translate without a fixed translation, on a
\* non-empty collection, no output coordinate is negative and the smallest
\* x and the smallest y over all output points are both 0.
C4_MinCornerAtOrigin ==
    \A c \in Rotations :
        c.tranlation = None =>
            LET pts == AllPoints(c.result.data)
            IN /\ \A p \in pts : RLeq(RInt(0), p[1]) /\ RLeq(RInt(0), p[2])
               /\ \E p \in pts : p[1] = RInt(0)
               /\ \E p \in pts : p[2] = RInt(0)

\* a slanted rotation of several records whose first record does not hold
\* the smallest x
C4_Witness ==
    \E c \in Rotations :
        /\ c.tranlation = None
        /\ angle = <<3, 4, 5>>
        /\ Len(c.df) >= 2
        /\ \A p \in PointsOf(c.result.data[1]) : p[1] # RInt(0)

(* ------------------------------- C5 ------------------------------------ *)
\* C5: the third value returned by rotate_and_translate is the offset that
\* was applied: every output point is the rotated point plus the returned
\* value; defaulted, it is the negated minimum corner of the rotated
\* collection; with a fixed translation t it is t and points move by +t.
C5_ReturnedOffsetIsApplied ==
    \A c \in Rotations :
        LET o == c.result.lower_left
            rotated == [i \in DOMAIN c.df |->
                          RotateGeo(c.df[i], angle, c.result.rotation_center)]
        IN /\ \A k \in PointIndex(c.df) :
                PointAt(c.result.data, k) = TranslatePoint(PointAt(rotated, k), o[1], o[2])
           /\ c.tranlation # None => o = c.tranlation
           /\ c.tranlation = None =>
                /\ \A p \in AllPoints(rotated) : RLeq(RNeg(o[1]), p[1]) /\ RLeq(RNeg(o[2]), p[2])
                /\ \E p \in AllPoints(rotated) : p[1] = RNeg(o[1])
                /\ \E p \in AllPoints(rotated) : p[2] = RNeg(o[2])

\* what the code does: the returned value is subtracted
C5_ReturnedValueIsSubtracted ==
    \A c \in Rotations :
        LET o == c.result.lower_left
            rotated == [i \in DOMAIN c.df |->
                          RotateGeo(c.df[i], angle, c.result.rotation_center)]
        IN \A k \in PointIndex(c.df) :
              PointAt(c.result.data, k)
                 = TranslatePoint(PointAt(rotated, k), RNeg(o[1]), RNeg(o[2]))

(* ------------------------------- C6 ------------------------------------ *)
\* C6: a later call rotate_and_translate(B, angle, c, o) with the center c
\* and offset o the first call returned gives back c and o and moves B by
\* the rigid motion that moved A: for a point p of A and q of B, the
\* difference of their images is the rotated difference q - p.  With B = A
\* the result is the first result.
C6_FrameReuse ==
    \A c \in Rotations :
        (/\ rot # None /\ df # <<>>
         /\ c.center = rot[1].rotation_center
         /\ c.tranlation = rot[1].lower_left) =>
            /\ c.result.rotation_center = rot[1].rotation_center
            /\ c.result.lower_left = rot[1].lower_left
            /\ \A ka \in PointIndex(Geometry(df)), kb \in PointIndex(c.df) :
                 LET p == PointAt(Geometry(df), ka)
                     q == PointAt(c.df, kb)
                     pp == PointAt(rot[1].data, ka)
                     qq == PointAt(c.result.data, kb)
                 IN <<RSub(qq[1], pp[1]), RSub(qq[2], pp[2])>>
                       = RotateVector(<<RSub(q[1], p[1]), RSub(q[2], p[2])>>, angle)
            /\ c.df = Geometry(df) => c.result.data = rot[1].data

\* the frame of the file reused for another collection with other bounds
C6_Witness ==
    /\ again # None
    /\ again[1].df = OtherFrame
    /\ again[1].center = rot[1].rotation_center
    /\ again[1].tranlation = rot[1].lower_left
    /\ \A p \in AllPoints(again[1].result.data) : p[1] # RInt(0)

(* ------------------------------- C7 ------------------------------------ *)
\* C7: _expand_to_polygons drops no record: the output has at least as
\* many rows as the input, and every Polygon row and every LineString row
\* of the input is a row of the output.
C7_NothingDropped ==
    expand # None =>
        /\ Len(expand[1].result) >= Len(expand[1].arg)
        /\ \A i \in DOMAIN expand[1].arg :
              expand[1].arg[i].geometry.type \in {"Polygon", "LineString"}
                 => InSeq(expand[1].arg[i], expand[1].result)

(* ------------------------------- C8 ------------------------------------ *)
\* C8: _expand_to_polygons puts, for a MultiPolygon row of k members, exactly
\* k Polygon rows, one per member in member order, each with the attributes
\* of the row, where the row stood: right after the rows of the records
\* before it and before those of the records after it.  The row count grows
\* by k - 1 against the same input with that row a single Polygon, and no
\* output row is a MultiPolygon.
C8_CompoundExpanded ==
    expand # None =>
        LET arg == expand[1].arg
            out == expand[1].result
        IN /\ \A j \in DOMAIN out : out[j].geometry.type # "MultiPolygon"
           /\ \A i \in DOMAIN arg :
                arg[i].geometry.type = "MultiPolygon" =>
                   LET k == Len(arg[i].geometry.parts)
                       before == _expand_to_polygons(SubSeq(arg, 1, i - 1))
                       after == _expand_to_polygons(SubSeq(arg, i + 1, Len(arg)))
                       single == [arg EXCEPT ![i].geometry = Polygon(@.parts[1])]
                   IN /\ Len(out) = Len(before) + k + Len(after)
                      /\ SubSeq(out, 1, Len(before)) = before
                      /\ SubSeq(out, Len(before) + k + 1, Len(out)) = after
                      /\ \A m \in 1 .. k :
                            /\ out[Len(before) + m].geometry = Polygon(arg[i].geometry.parts[m])
                            /\ out[Len(before) + m].attrs = arg[i].attrs
                      /\ Len(out) = Len(_expand_to_polygons(single)) + (k - 1)

\* a MultiPolygon row between or beside other rows
C8_Witness ==
    /\ expand # None
    /\ Len(expand[1].arg) >= 2
    /\ \E i \in DOMAIN expand[1].arg :
          /\ expand[1].arg[i].geometry.type = "MultiPolygon"
          /\ expand[1].arg[i].geometry.parts[1] # expand[1].arg[i].geometry.parts[2]

(* ------------------------------- C9 ------------------------------------ *)
\* C9: for a file that is not CAD, _expand_to_polygons has been called
\* before rotate_and_translate runs, and neither rotate_and_translate nor
\* transform_to_lines is given a MultiPolygon.
C9_NormalizedBeforeRotation ==
    (InSeq("rotate_and_translate", calls) /\ file.f_type # ".dxf") =>
        /\ InSeq("_expand_to_polygons", calls)
        /\ \A i \in DOMAIN df : df[i].geometry.type # "MultiPolygon"
        /\ walls # None =>
              \A i \in DOMAIN rot[1].data : rot[1].data[i].type # "MultiPolygon"

(* ------------------------------- C10 ----------------------------------- *)
\* C10: a collection with a record that is neither a line nor an area (a
\* Point) yields no wall lists: classification aborts and the record gives
\* no wall in either list.
C10_PointAborts ==
    \A r \in Runs : \A i \in DOMAIN r.data : r.data[i].type # "Point"
====
